---- MODULE Spec2Model ----
(***************************************************************************)
(* Horizon-MCPs: the HTTP transport with retry/backoff                     *)
(* (src/src/common/http.py) and the token whale resolver                   *)
(* (src/src/helius/services.py, HeliusService.get_token_whale_addresses).  *)
(*                                                                         *)
(* Two specifications share the module:                                    *)
(*   HttpSpec  one call of HttpClient.request_with_retry / get_json /      *)
(*             post_json against a session whose responses are arbitrary;  *)
(*   Spec      one call of HeliusService.get_token_whale_addresses against *)
(*             an arbitrary ledger (RPC results are arbitrary).            *)
(***************************************************************************)
EXTENDS Integers, Sequences, FiniteSets, TLC

VARIABLES
    \* ---- transport (common/http.py) ----
    hCaller,        \* which entry point was called
    hPc,            \* "idle" | "request" | "sleep" | "done"
    attempt,        \* loop variable of request_with_retry
    hStatus,        \* resp.status_code of the latest response (NoResponse: none yet)
    hLog,           \* observable trace: session.request calls and time.sleep calls
    hOutcome,       \* "none" | "returned" | "raised_http" | "raised_conn"
    hValue,         \* status of the response returned or raised (NoResponse: none)
    \* ---- JupiterService.ultra_order (jupiter/services.py) ----
    uoPc,           \* "idle" | "start" | "whales" | "order" | "simulate" | "done"
    uoArgs,         \* the arguments of the call
    taker,          \* the local "taker"
    whaleCalls,     \* calls of helius.get_token_whale_addresses
    whaleOutcome,   \* how that call ended
    orderQueries,   \* the queries of the GET /order requests, in order
    uoOutcome,      \* "none" | "returned" | "raised"
    \* ---- HeliusService methods that validate their arguments ----
    svcPc,          \* "idle" | "call" | "rest" | "rpc" | "done"
    svcCall,        \* the method called and its arguments
    restPosts,      \* client.rest_post calls
    svcOutcome,     \* "none" | "returned" | "raised"
    svcError,       \* the exception raised
    \* ---- transforms.summarize_raw_transaction ----
    logPc,          \* "idle" | "call" | "done"
    tx,             \* the argument
    log_messages,   \* TxRawSummary.log_messages of the result
    signature,      \* TxRawSummary.signature of the result
    \* ---- HeliusClient.rpc (helius/client.py) ----
    rpcPc,          \* "idle" | "call" | "post" | "done"
    apiKey,         \* the configured HELIUS_API_KEY ("" when there is none)
    rpcNetwork,     \* the "network" argument
    rpcMethod,      \* the "method" argument
    rpcPosts,       \* payloads handed to http.post_json, in order
    data,           \* what post_json returned (NoData: nothing yet)
    rpcOutcome,     \* "none" | "returned" | "raised"
    rpcValue,       \* the value returned
    rpcError,       \* the exception raised
    \* ---- get_token_whale_addresses: arguments ----
    mint,
    network,
    min_amount_ui,
    min_sol_balance,    \* in half lamports (0.5e-9 SOL), so that 1.5 lamports is expressible
    max_results,
    \* ---- get_token_whale_addresses: control ----
    pc,             \* "idle" | "start" | "t1_wait" | "t2_fetch" | "t2_items" | "t2_wait" | "t3_wait" | "done"
    tier,           \* 1: getTokenLargestAccounts, 2: DAS pagination, 3: known whales
    outcome,        \* "none" | "returned" | "raised"
    result,         \* the list returned
    error,          \* the exception raised
    \* ---- locals of get_token_whale_addresses ----
    largest,
    acctIdx,        \* position of "account" in "largest"
    whale_addresses,
    \* ---- locals of _get_whales_via_das_pagination ----
    iterations,
    cursor,
    das_result,
    remaining,      \* entries of the current page the for loop has not reached yet
    owner,          \* owner of the entry whose get_balance call is in flight
    amount_ui,      \* amount_ui of that entry
    known_candidates,
    filtered,
    knownIdx,       \* position of "addr" in "known_candidates"
    \* ---- observation of the calls made (history) ----
    topHoldersCalls,    \* calls of get_token_largest_accounts
    topHoldersOutcome,  \* how that call ended
    scanEntries,        \* entries into _get_whales_via_das_pagination
    pageFetches,        \* client.rpc(network, "getTokenAccounts", ...) calls
    inFlight,           \* get_balance calls started and not yet completed
    verified,           \* addresses whose get_balance returned >= min_sol_balance
    t1Checked,          \* positions in "largest" get_balance was called for
    t1Passed,           \* positions in "largest" that were appended
    largestSeen,        \* largest-amount page entry the scan has examined
    pageError,          \* the exception that ended the page loop
    unexaminedWhale,    \* owner of a qualifying entry of a page whose entries were never read
    probeRaised         \* the step just taken completed a get_balance call that raised

httpVars == <<hCaller, hPc, attempt, hStatus, hLog, hOutcome, hValue>>

argVars == <<mint, network, min_amount_ui, min_sol_balance, max_results>>

ctlVars == <<pc, tier, outcome, result, error, inFlight>>

t1Vars == <<largest, acctIdx, t1Checked, t1Passed>>

scanLocals == <<cursor, das_result, remaining, owner, amount_ui>>

scanHistory == <<pageError, unexaminedWhale>>

dasVars == <<iterations, scanLocals, scanEntries, largestSeen, scanHistory>>

t3Vars == <<known_candidates, filtered, knownIdx>>

resolverVars ==
    <<argVars, ctlVars, t1Vars, whale_addresses, dasVars, t3Vars,
      topHoldersCalls, topHoldersOutcome, pageFetches, verified, probeRaised>>

rpcVars == <<rpcPc, apiKey, rpcNetwork, rpcMethod, rpcPosts, data, rpcOutcome, rpcValue, rpcError>>

uoVars == <<uoPc, uoArgs, taker, whaleCalls, whaleOutcome, orderQueries, uoOutcome>>

svcVars == <<svcPc, svcCall, restPosts, svcOutcome, svcError>>

logVars == <<logPc, tx, log_messages, signature>>

vars == <<httpVars, rpcVars, resolverVars, uoVars, svcVars, logVars>>

(***************************************************************************)
(* Transport: HttpClient.request_with_retry, get_json, post_json           *)
(***************************************************************************)

\* backoffs = [0.2, 0.6, 1.2] seconds, written in milliseconds.
backoffs == <<200, 600, 1200>>

\* Status codes a response may carry: success, client errors, 429, the ends of
\* the 5xx range and the first code past it.
HttpStatuses == {200, 404, 429, 499, 500, 599, 600}

HttpCallers == {"request_with_retry", "get_json", "post_json"}

\* Fault: every error status (4xx as well as 5xx) is taken to be transient.
IsRetryable_ClientErrors(status) == 400 <= status /\ status < 600

\* status == 429 or 500 <= status < 600
IsRetryable(status) == status = 429 \/ (500 <= status /\ status < 600)

\* requests.Response.raise_for_status raises HTTPError for 4xx and 5xx.
RaisesForStatus(status) == 400 <= status /\ status < 600

\* Stands for "no response": session.request raised instead of returning.
NoResponse == 0

ReqEvent(status) == [ev |-> "request", val |-> status]
ReqFailedEvent == [ev |-> "request", val |-> NoResponse]
SleepEvent(ms) == [ev |-> "sleep", val |-> ms]

HttpIdle ==
    /\ hCaller = "none"
    /\ hPc = "idle"
    /\ attempt = 0
    /\ hStatus = NoResponse
    /\ hLog = <<>>
    /\ hOutcome = "none"
    /\ hValue = NoResponse

HttpStart ==
    /\ hCaller \in HttpCallers
    /\ hPc = "request"
    /\ attempt = 0
    /\ hStatus = NoResponse
    /\ hLog = <<>>
    /\ hOutcome = "none"
    /\ hValue = NoResponse

\* The response leaves request_with_retry; get_json / post_json then call
\* raise_for_status on it before decoding the body.
HttpDeliver(status) ==
    IF hCaller \in {"get_json", "post_json"} /\ RaisesForStatus(status)
    THEN /\ hOutcome' = "raised_http"
         /\ hValue' = status
    ELSE /\ hOutcome' = "returned"
         /\ hValue' = status

\* The last attempt got a retryable status: resp.raise_for_status(); return resp
HttpGiveUp(status) ==
    IF RaisesForStatus(status)
    THEN /\ hOutcome' = "raised_http"
         /\ hValue' = status
    ELSE HttpDeliver(status)

\* Fault: the last attempt is not recognised, so a retryable status always
\* leads to a sleep.
HttpClassify_NoGiveUp(status) ==
    IF IsRetryable(status)
    THEN /\ hPc' = "sleep"
         /\ UNCHANGED <<hOutcome, hValue>>
    ELSE /\ HttpDeliver(status)
         /\ hPc' = "done"

\* What the loop body does with the response of one attempt.
HttpClassify(status) ==
    IF IsRetryable(status)
    THEN IF attempt = Len(backoffs) - 1
         THEN /\ HttpGiveUp(status)
              /\ hPc' = "done"
         ELSE /\ hPc' = "sleep"
              /\ UNCHANGED <<hOutcome, hValue>>
    ELSE /\ HttpDeliver(status)
         /\ hPc' = "done"

\* One pass of the loop body: session.request returns a response.
HttpRequest ==
    /\ hPc = "request"
    /\ attempt < Len(backoffs)
    /\ \E status \in HttpStatuses :
          /\ hStatus' = status
          /\ hLog' = Append(hLog, ReqEvent(status))
          /\ HttpClassify(status)
    /\ UNCHANGED <<hCaller, attempt>>

\* Fault: an exception of session.request is handled like a transient
\* response: sleep, then request again.
HttpRequestRaises_Retried ==
    /\ hPc = "request"
    /\ attempt < Len(backoffs)
    /\ hLog' = Append(hLog, ReqFailedEvent)
    /\ IF attempt = Len(backoffs) - 1
       THEN /\ hPc' = "done"
            /\ hOutcome' = "raised_conn"
            /\ hValue' = NoResponse
       ELSE /\ hPc' = "sleep"
            /\ UNCHANGED <<hOutcome, hValue>>
    /\ UNCHANGED <<hCaller, attempt, hStatus>>

\* session.request raises (DNS failure, refused connection, timeout): nothing
\* in request_with_retry, get_json or post_json catches it.
HttpRequestRaises ==
    /\ hPc = "request"
    /\ attempt < Len(backoffs)
    /\ hLog' = Append(hLog, ReqFailedEvent)
    /\ hPc' = "done"
    /\ hOutcome' = "raised_conn"
    /\ hValue' = NoResponse
    /\ UNCHANGED <<hCaller, attempt, hStatus>>

\* Fault: every sleep takes the first backoff slot.
HttpSleep_FirstSlot ==
    /\ hPc = "sleep"
    /\ hLog' = Append(hLog, SleepEvent(backoffs[1]))
    /\ attempt' = attempt + 1
    /\ IF attempt + 1 < Len(backoffs)
       THEN /\ hPc' = "request"
            /\ UNCHANGED <<hOutcome, hValue>>
       ELSE /\ hPc' = "done"
            /\ HttpDeliver(hStatus)
    /\ UNCHANGED <<hCaller, hStatus>>

\* time.sleep(backoffs[attempt]); continue.  backoffs is 0-indexed in the
\* code and 1-indexed here.  When the range is used up the loop ends and the
\* function returns the last response (the trailing "return resp").
HttpSleep ==
    /\ hPc = "sleep"
    /\ hLog' = Append(hLog, SleepEvent(backoffs[attempt + 1]))
    /\ attempt' = attempt + 1
    /\ IF attempt + 1 < Len(backoffs)
       THEN /\ hPc' = "request"
            /\ UNCHANGED <<hOutcome, hValue>>
       ELSE /\ hPc' = "done"
            /\ HttpDeliver(hStatus)
    /\ UNCHANGED <<hCaller, hStatus>>

HttpNext ==
    \/ HttpRequest /\ UNCHANGED <<rpcVars, resolverVars, uoVars, svcVars, logVars>>
    \/ HttpRequestRaises /\ UNCHANGED <<rpcVars, resolverVars, uoVars, svcVars, logVars>>
    \/ HttpSleep /\ UNCHANGED <<rpcVars, resolverVars, uoVars, svcVars, logVars>>

(***************************************************************************)
(* Whale resolver: HeliusService.get_token_whale_addresses                 *)
(***************************************************************************)

\* ---- bounds of the model ----
MaxHolders == 2         \* entries of a getTokenLargestAccounts answer
MaxPageItems == 2       \* entries of a getTokenAccounts page
MaxResultsBound == 2    \* largest max_results argument
MaxLamports == 1        \* largest balance get_balance reports

\* ---- values ----
NoneVal == "None"       \* Python's None where a string is expected
None == <<>>            \* Optional[X]: None, or Some(x)
Some(x) == <<x>>

HolderAddrs == {"A1", "A2"}

USDC_MINT == "EPjFWdd5AufqSSqeM2qN1xzybapC8G4wEGGkZwyTDt1v"
SOL_MINT == "So11111111111111111111111111111111111111112"
USDT_MINT == "Es9vMFrzaCERmJfrF4H2FYD4KCoNkY11McCe8BenwNYB"

known_whales(m) ==
    CASE m = USDC_MINT ->
           << "BQy5rNRxLfcaK6554PMzsg4VJsFXzwGnAnayb8TZKgZX",
              "CqCDNi1PSB7cP3rDxU12YKjVDqbJeZ9rGhxZxkkwi6mC",
              "9RfZwn2Prux6QesG1Noo4HzMEBkMvoYdkLRMKEZf86tT",
              "H8W3ctz92svYXCbxDdZGTCm66RBkXqudLV8Xjhj8HBJd",
              "9WzDXwBbmkg8ZTbNMqUxvQRAyrZzDsGYdLVL9zYtAWWM" >>
      [] m = SOL_MINT ->
           << "GjphYQcbP1m3FuDyCTUJf2mUMxKME2QyELubyyi8gH4E",
              "J1S9H3QjnRtBbbuD4HjPV6RpRhwuk4zKbxsnCHuTgh9w",
              "Bd7VSwkqpwHjKPMRLQUPqTk5W7c1VRNDfSQ1YTVMQ52v",
              "AhbYQB2Kw4tG3e8YmK8j5zJ4r3F8VXf6wUgkEoWsGkAJ",
              "DfXygSm4jCyNCybVYYK6DwvWqjKee8pbDmJGcLWNDXjh" >>
      [] m = USDT_MINT ->
           << "Q6LZqDG2J4E7KZAkfN5X9w3J8c7VGp9LhJy8aK5mYfDq",
              "HAkqJgFCPRhtfvXBMVQ9BfrYPKQhcMp3FGVj9bwyNNMp",
              "J1S9H3QjnRtBbbuD4HjPV6RpRhwuk4zKbxsnCHuTgh9w",
              "Bd7VSwkqpwHjKPMRLQUPqTk5W7c1VRNDfSQ1YTVMQ52v",
              "AhbYQB2Kw4tG3e8YmK8j5zJ4r3F8VXf6wUgkEoWsGkAJ" >>
      [] OTHER -> <<>>

\* Fault: the table is used on every network.
GetKnownWhaleAddresses_AnyNetwork(m, net) == known_whales(m)

\* _get_known_whale_addresses(mint, network)
GetKnownWhaleAddresses(m, net) ==
    IF net # "mainnet" THEN <<>> ELSE known_whales(m)

\* list[:n] for n >= 0
Take(list, n) == SubSeq(list, 1, IF n < Len(list) THEN n ELSE Len(list))

Range(list) == {list[i] : i \in 1..Len(list)}

RECURSIVE Pow10(_)
Pow10(n) == IF n = 0 THEN 1 ELSE 10 * Pow10(n - 1)

\* ---- arguments the model draws ----
Mints == {USDC_MINT, "UnlistedMint"}
Networks == {"mainnet", "devnet"}
MinAmounts == {2}
MinSolBalances == {2}       \* 1 lamport

\* ---- program constants ----
max_iterations == 20
default_decimals == 6

\* Amounts are kept in units of 10^-6 token, so that amount_raw / 10 ** dec is
\* exact for every dec the model draws (dec <= default_decimals).
UiScale == Pow10(default_decimals)

\* float(s): the strings that parse, with their values; any other string
\* raises ValueError.
FloatTable == ("0" :> 0) @@ ("1" :> 1) @@ ("3" :> 3)

FloatParses(s) == s \in DOMAIN FloatTable

\* Python truthiness of an Optional[str]
Truthy(s) == s # NoneVal /\ s # ""

\* ---- Tier 1: the entries of "largest" ----
HolderItems ==
    [address : HolderAddrs \cup {NoneVal}, ui_amount_string : {NoneVal, "abc", "1", "3"}]

HolderLists ==
    UNION {[1..n -> HolderItems] : n \in 0..MaxHolders}

\* Fault: the amount of the account is not compared with min_amount_ui.
T1AmountOk_NoThreshold(account) ==
    /\ Truthy(account.address)
    /\ Truthy(account.ui_amount_string)
    /\ FloatParses(account.ui_amount_string)

\* Lines 366-369: the account reaches the get_balance call.
T1AmountOk(account) ==
    /\ Truthy(account.address)
    /\ Truthy(account.ui_amount_string)
    /\ FloatParses(account.ui_amount_string)
    /\ FloatTable[account.ui_amount_string] >= min_amount_ui

\* sol_balance / 1_000_000_000 >= min_sol_balance
T1SolOk(lamports) == 2 * lamports >= min_sol_balance

\* Position of the next account, from position i on, whose get_balance is
\* called; 0 when the for loop runs out.
NextAccount(list, i) ==
    LET S == {j \in i..Len(list) : T1AmountOk(list[j])}
    IN  IF S = {} THEN 0 ELSE CHOOSE j \in S : \A k \in S : j <= k

\* ---- Tier 2: the entries of a page ----
\* The "balance" object an entry may carry.
StringBalance(str) == Some([uiAmountString |-> str, decimals |-> None])
DecimalsBalance(dec) == Some([uiAmountString |-> NoneVal, decimals |-> Some(dec)])

\* (amount, balance) of an entry: a raw amount alone, a uiAmountString (with
\* or without a raw amount), a string that does not parse, explicit decimals.
DasAmounts ==
    { <<None, None>>, <<Some(UiScale), None>>, <<Some(3 * UiScale), None>>,
      <<None, StringBalance("3")>>, <<Some(UiScale), StringBalance("3")>>,
      <<None, StringBalance("abc")>>, <<Some(3 * UiScale), StringBalance("abc")>>,
      <<Some(1), DecimalsBalance(0)>>, <<Some(3), DecimalsBalance(0)>> }

DasItems ==
    {[owner |-> o, amount |-> a[1], balance |-> a[2]] : o \in HolderAddrs, a \in DasAmounts}
    \cup {[owner |-> NoneVal, amount |-> Some(3 * UiScale), balance |-> None]}

\* Lines 456-473: amount_ui of an entry, None when it cannot be computed.
AmountUi(it) ==
    LET bal == it.balance
        fromString ==
            IF bal # None /\ FloatParses(bal[1].uiAmountString)
            THEN Some(FloatTable[bal[1].uiAmountString] * UiScale)
            ELSE None
        dec == IF bal # None /\ bal[1].decimals # None
               THEN bal[1].decimals[1]
               ELSE default_decimals
    IN  IF fromString # None THEN fromString
        ELSE IF it.amount # None
             THEN Some(it.amount[1] * Pow10(default_decimals - dec))
             ELSE None

\* Fault: the amount threshold of line 478 is not applied.
T2AmountOk_NoThreshold(it) ==
    /\ Truthy(it.owner)
    /\ AmountUi(it) # None

\* Lines 452-478: the entry reaches the get_balance call.
T2AmountOk(it) ==
    /\ Truthy(it.owner)
    /\ AmountUi(it) # None
    /\ AmountUi(it)[1] >= min_amount_ui * UiScale

\* (sol_lamports or 0) >= int(min_sol_balance * 1_000_000_000)
DasSolOk(lamports) == lamports >= min_sol_balance \div 2

\* ---- what the RPC layer may answer ----
RpcFailures == {"RuntimeError_TooManyAccounts", "RuntimeError", "ValueError", "HTTPError"}

BalanceOutcomes ==
    [kind : {"ok"}, lamports : 0..MaxLamports]
    \cup [kind : RpcFailures, lamports : {0}]

Cursors == {"c1", "c2"}

\* A getTokenAccounts answer: "schema_dict" is a dict that validates as
\* RawDasTokenAccountsResult, "other_dict" a dict that does not, "not_dict"
\* anything else.  n is the number of entries it carries.
DasResults ==
    [kind : {"schema_dict", "other_dict"}, n : 0..MaxPageItems, cursor : Cursors \cup {NoneVal}]
    \cup {[kind |-> "not_dict", n |-> 0, cursor |-> NoneVal]}

NoDasResult == [kind |-> "none", n |-> 0, cursor |-> NoneVal]

WaitPcs == {"t1_wait", "t2_wait", "t3_wait"}

\* The get_balance call the current step completes, if any.
Completed == IF pc \in WaitPcs THEN 1 ELSE 0

\* ---- leaving a step ----
Return(t, res) ==
    /\ pc' = "done"
    /\ tier' = t
    /\ outcome' = "returned"
    /\ result' = res
    /\ error' = "none"
    /\ inFlight' = inFlight - Completed

Raise(e) ==
    /\ pc' = "done"
    /\ tier' = tier
    /\ outcome' = "raised"
    /\ result' = <<>>
    /\ error' = e
    /\ inFlight' = inFlight - Completed

Goto(p, t) ==
    /\ pc' = p
    /\ tier' = t
    /\ inFlight' = inFlight - Completed
    /\ UNCHANGED <<outcome, result, error>>

\* Fault: the page loop starts get_balance and moves on without awaiting it.
CallBalance_NoWait(p, t) ==
    /\ pc' = IF p = "t2_wait" THEN "t2_items" ELSE p
    /\ tier' = t
    /\ inFlight' = inFlight - Completed + 1
    /\ UNCHANGED <<outcome, result, error>>

\* self.get_balance(...) is called; the step ends waiting for its answer.
CallBalance(p, t) ==
    /\ pc' = p
    /\ tier' = t
    /\ inFlight' = inFlight - Completed + 1
    /\ UNCHANGED <<outcome, result, error>>

\* ---- Tier 3: lines 499-511 ----
\* Fault: the loop over known_candidates never moves past its first entry.
KnownLoop_NoAdvance(known, k, f) ==
    /\ known_candidates' = known
    /\ knownIdx' = 1
    /\ filtered' = f
    /\ IF 1 <= Len(known) /\ Len(f) < max_results
       THEN CallBalance("t3_wait", 3)
       ELSE Return(3, IF f # <<>> THEN f ELSE Take(known, max_results))

\* The for loop over known_candidates, at position k with "filtered" = f.
KnownLoop(known, k, f) ==
    /\ known_candidates' = known
    /\ knownIdx' = k
    /\ filtered' = f
    /\ IF k <= Len(known) /\ Len(f) < max_results
       THEN CallBalance("t3_wait", 3)
       ELSE Return(3, IF f # <<>> THEN f ELSE Take(known, max_results))

\* Lines 496-511: the while loop is over with whale_addresses = w.  The
\* locals of the loop are dead from here on and are cleared.
AfterScan(w) ==
    /\ cursor' = NoneVal
    /\ das_result' = NoDasResult
    /\ remaining' = 0
    /\ owner' = NoneVal
    /\ amount_ui' = None
    /\ IF w # <<>>
       THEN /\ Return(2, w)
            /\ UNCHANGED t3Vars
       ELSE KnownLoop(GetKnownWhaleAddresses(mint, network), 1, <<>>)

\* Fault: the while condition without "iterations < max_iterations".
ScanLoop_NoBound(w, n, cur) ==
    IF Len(w) < max_results
    THEN /\ Goto("t2_fetch", 2)
         /\ cursor' = cur
         /\ das_result' = NoDasResult
         /\ remaining' = 0
         /\ owner' = NoneVal
         /\ amount_ui' = None
         /\ UNCHANGED t3Vars
    ELSE AfterScan(w)

\* Line 414: the while condition, with whale_addresses = w, iterations = n and
\* cursor = cur.
ScanLoop(w, n, cur) ==
    IF Len(w) < max_results /\ n < max_iterations
    THEN /\ Goto("t2_fetch", 2)
         /\ cursor' = cur
         /\ das_result' = NoDasResult
         /\ remaining' = 0
         /\ owner' = NoneVal
         /\ amount_ui' = None
         /\ UNCHANGED t3Vars
    ELSE AfterScan(w)

\* Lines 388-391 and 405-412: the fallback starts.  The locals of Tier 1 are
\* dead from here on and are cleared.
EnterDas ==
    /\ whale_addresses' = <<>>
    /\ iterations' = 0
    /\ largestSeen' = None
    /\ scanEntries' = scanEntries + 1
    /\ pageError' = "none"
    /\ unexaminedWhale' = NoneVal
    /\ largest' = <<>>
    /\ acctIdx' = 0
    /\ t1Checked' = {}
    /\ t1Passed' = {}
    /\ ScanLoop(<<>>, 0, NoneVal)

\* ---- Tier 1: lines 359-386 ----
\* Fault: Tier 1 returns whatever it collected, nothing included.
AfterHolders_ReturnEmpty(list, w, passed) ==
    /\ Return(1, w)
    /\ largest' = list
    /\ whale_addresses' = w
    /\ t1Passed' = passed
    /\ UNCHANGED <<acctIdx, t1Checked, dasVars, t3Vars>>

\* Lines 380-391: the for loop over "largest" is over with whale_addresses = w.
AfterHolders(list, w, passed) ==
    IF w # <<>>
    THEN /\ Return(1, w)
         /\ largest' = list
         /\ whale_addresses' = w
         /\ t1Passed' = passed
         /\ UNCHANGED <<acctIdx, t1Checked, dasVars, t3Vars>>
    ELSE EnterDas

\* The for loop over list, from position i on, with whale_addresses = w.
HoldersLoop(list, i, w, passed) ==
    LET j == NextAccount(list, i)
    IN  IF j = 0
        THEN AfterHolders(list, w, passed)
        ELSE /\ CallBalance("t1_wait", 1)
             /\ largest' = list
             /\ acctIdx' = j
             /\ t1Checked' = t1Checked \cup {j}
             /\ t1Passed' = passed
             /\ whale_addresses' = w
             /\ UNCHANGED <<dasVars, t3Vars>>

\* Fault: "Too many accounts" makes the resolver query the top holders again.
OnRuntimeError_Retry(e) ==
    /\ IF e = "RuntimeError_TooManyAccounts" THEN Goto("start", 1) ELSE Raise(e)
    /\ UNCHANGED <<t1Vars, whale_addresses, dasVars, t3Vars>>

\* Lines 383-386: what a RuntimeError raised inside the try does.
OnRuntimeError(e) ==
    IF e = "RuntimeError_TooManyAccounts"
    THEN EnterDas
    ELSE /\ Raise(e)
         /\ UNCHANGED <<t1Vars, whale_addresses, dasVars, t3Vars>>

\* Fault: every failure of the top holder query leads into the fallback.
OnTopHoldersError_Swallow(e) == EnterDas

\* An exception raised by get_token_largest_accounts: only RuntimeError is
\* caught (ValueError covers pydantic's ValidationError).
OnTopHoldersError(e) ==
    IF e \in {"RuntimeError_TooManyAccounts", "RuntimeError"}
    THEN OnRuntimeError(e)
    ELSE /\ Raise(e)
         /\ UNCHANGED <<t1Vars, whale_addresses, dasVars, t3Vars>>

TopHoldersOutcomes ==
    [kind : {"ok"}, list : HolderLists]
    \cup [kind : RpcFailures, list : {<<>>}]

\* Lines 360-365: get_token_largest_accounts answers (an empty list also
\* stands for a None answer: both are falsy).
TopHolders ==
    /\ pc = "start"
    /\ topHoldersCalls' = topHoldersCalls + 1
    /\ \E out \in TopHoldersOutcomes :
          /\ topHoldersOutcome' = out.kind
          /\ IF out.kind = "ok"
             THEN IF Len(out.list) > 0
                  THEN HoldersLoop(out.list, 1, <<>>, {})
                  ELSE EnterDas
             ELSE OnTopHoldersError(out.kind)
    /\ UNCHANGED <<argVars, pageFetches, verified, probeRaised>>

\* Fault: the Tier 1 loop breaks one address late.
HoldersBreak_OneLate(w) == Len(w) > max_results

\* Fault: the Tier 1 loop never breaks at max_results.
HoldersBreak_Never(w) == FALSE

\* Lines 375-376: if len(whale_addresses) >= max_results: break
HoldersBreak(w) == Len(w) >= max_results

\* Lines 371-378: get_balance answers for largest[acctIdx].
T1BalanceReturn ==
    /\ pc = "t1_wait"
    /\ \E out \in BalanceOutcomes :
          LET addr == largest[acctIdx].address
              ok == out.kind = "ok" /\ T1SolOk(out.lamports)
              w == IF ok THEN Append(whale_addresses, addr) ELSE whale_addresses
              passed == IF ok THEN t1Passed \cup {acctIdx} ELSE t1Passed
          IN  /\ verified' = IF out.kind = "ok" /\ 2 * out.lamports >= min_sol_balance
                             THEN verified \cup {addr} ELSE verified
              /\ probeRaised' = (out.kind # "ok")
              /\ IF out.kind \in {"ok", "ValueError"}
                 THEN IF ok /\ HoldersBreak(w)
                      THEN AfterHolders(largest, w, passed)
                      ELSE HoldersLoop(largest, acctIdx + 1, w, passed)
                 ELSE IF out.kind \in {"RuntimeError_TooManyAccounts", "RuntimeError"}
                      THEN OnRuntimeError(out.kind)
                      ELSE /\ Raise(out.kind)
                           /\ UNCHANGED <<t1Vars, whale_addresses, dasVars, t3Vars>>
    /\ UNCHANGED <<argVars, topHoldersCalls, topHoldersOutcome, pageFetches>>

\* ---- Tier 2: lines 414-494 ----
PageFailures == {"RuntimeError", "HTTPError"}

\* Fault: a failing page throws away what the earlier pages gave.
OnPageError_Discard(e) ==
    /\ pageError' = e
    /\ AfterScan(<<>>)

\* Lines 493-494: except Exception: break.  The loop is left with
\* whale_addresses as it is.
OnPageError(e) ==
    /\ pageError' = e
    /\ AfterScan(whale_addresses)

\* Lines 415-436: one page is fetched.  raw.items does not exist on a validated
\* RawDasTokenAccountsResult (its fields are last_indexed_slot, total, limit,
\* cursor, token_accounts), so the AttributeError ends the loop through the
\* outer "except Exception: break".
FetchPage ==
    /\ pc = "t2_fetch"
    /\ iterations' = iterations + 1
    /\ pageFetches' = pageFetches + 1
    /\ \/ \E e \in PageFailures :
            /\ OnPageError(e)
            /\ UNCHANGED unexaminedWhale
       \/ \E d \in DasResults :
            IF d.kind = "other_dict" /\ d.n > 0
            THEN /\ das_result' = d
                 /\ remaining' = d.n
                 /\ Goto("t2_items", 2)
                 /\ UNCHANGED <<cursor, owner, amount_ui, t3Vars, scanHistory>>
            ELSE IF d.kind = "schema_dict"
                 THEN /\ OnPageError("AttributeError")
                      /\ IF d.n > 0
                         THEN \E it \in DasItems, lamports \in 0..MaxLamports :
                                 unexaminedWhale' =
                                     IF T2AmountOk(it) /\ DasSolOk(lamports)
                                     THEN it.owner ELSE unexaminedWhale
                         ELSE UNCHANGED unexaminedWhale
                 ELSE /\ AfterScan(whale_addresses)
                      /\ UNCHANGED scanHistory
    /\ probeRaised' = FALSE
    /\ UNCHANGED <<argVars, t1Vars, whale_addresses, scanEntries, largestSeen,
                   topHoldersCalls, topHoldersOutcome, verified>>

\* The largest-amount entry among those examined, replaced only by a strictly
\* larger one.
SeenLargest(seen, it) ==
    IF Truthy(it.owner) /\ AmountUi(it) # None
       /\ (seen = None \/ AmountUi(it)[1] > seen[1].amount_ui)
    THEN Some([owner |-> it.owner, amount_ui |-> AmountUi(it)[1]])
    ELSE seen

\* Fault: the cursor is not advanced; the next fetch sends the old one again.
EndOfPage_KeepCursor ==
    /\ IF Truthy(das_result.cursor)
       THEN ScanLoop(whale_addresses, iterations, cursor)
       ELSE AfterScan(whale_addresses)
    /\ UNCHANGED largestSeen

\* Lines 489-492: the for loop is over; the cursor advances.
EndOfPage ==
    /\ IF Truthy(das_result.cursor)
       THEN ScanLoop(whale_addresses, iterations, das_result.cursor)
       ELSE AfterScan(whale_addresses)
    /\ UNCHANGED largestSeen

\* Fault: the page loop never breaks at max_results.
ItemsBreak_Never(w) == FALSE

\* Lines 439-440: if len(whale_addresses) >= max_results: break
ItemsBreak(w) == Len(w) >= max_results

\* Lines 438-481: the for loop takes the next entry of the page; the entry is
\* read from the answer when the loop reaches it.
NextItem ==
    /\ pc = "t2_items"
    /\ IF remaining = 0 \/ ItemsBreak(whale_addresses)
       THEN EndOfPage
       ELSE /\ \E it \in DasItems :
                 /\ largestSeen' = SeenLargest(largestSeen, it)
                 /\ IF T2AmountOk(it)
                    THEN /\ owner' = it.owner
                         /\ amount_ui' = AmountUi(it)
                         /\ CallBalance("t2_wait", 2)
                    ELSE /\ owner' = NoneVal
                         /\ amount_ui' = None
                         /\ Goto("t2_items", 2)
            /\ remaining' = remaining - 1
            /\ UNCHANGED <<cursor, das_result, t3Vars>>
    /\ probeRaised' = FALSE
    /\ UNCHANGED <<argVars, t1Vars, whale_addresses, iterations, scanEntries, scanHistory,
                   topHoldersCalls, topHoldersOutcome, pageFetches, verified>>

\* Fault: an exception of get_balance leaves the scan.
T2BalanceError_Fatal(e) ==
    /\ Raise(e)
    /\ UNCHANGED <<whale_addresses, owner, amount_ui>>

\* Lines 484-485: except Exception: continue
T2BalanceError(e) ==
    /\ whale_addresses' = whale_addresses
    /\ owner' = NoneVal
    /\ amount_ui' = None
    /\ Goto("t2_items", 2)

\* Lines 481-485: get_balance answers for the owner of the entry.
T2BalanceReturn ==
    /\ pc = "t2_wait"
    /\ \E out \in BalanceOutcomes :
          /\ verified' = IF out.kind = "ok" /\ 2 * out.lamports >= min_sol_balance
                         THEN verified \cup {owner} ELSE verified
          /\ probeRaised' = (out.kind # "ok")
          /\ IF out.kind = "ok"
             THEN /\ whale_addresses' =
                        IF DasSolOk(out.lamports)
                        THEN Append(whale_addresses, owner) ELSE whale_addresses
                  /\ owner' = NoneVal
                  /\ amount_ui' = None
                  /\ Goto("t2_items", 2)
             ELSE T2BalanceError(out.kind)
    /\ UNCHANGED <<argVars, t1Vars, iterations, cursor, das_result, remaining, scanEntries,
                   largestSeen, scanHistory, t3Vars, topHoldersCalls, topHoldersOutcome,
                   pageFetches>>

\* ---- Tier 3: lines 502-511 ----
\* get_balance answers for known_candidates[knownIdx].
T3BalanceReturn ==
    /\ pc = "t3_wait"
    /\ \E out \in BalanceOutcomes :
          LET addr == known_candidates[knownIdx]
              ok == out.kind = "ok" /\ DasSolOk(out.lamports)
          IN  /\ verified' = IF out.kind = "ok" /\ 2 * out.lamports >= min_sol_balance
                             THEN verified \cup {addr} ELSE verified
              /\ probeRaised' = (out.kind # "ok")
              /\ KnownLoop(known_candidates, knownIdx + 1,
                           IF ok THEN Append(filtered, addr) ELSE filtered)
    /\ UNCHANGED <<argVars, t1Vars, whale_addresses, dasVars,
                   topHoldersCalls, topHoldersOutcome, pageFetches>>

(***************************************************************************)
(* RPC gateway: HeliusClient.rpc                                           *)
(***************************************************************************)

RpcMethods == {"getBalance", "getTokenLargestAccounts", "getTokenAccounts"}

\* Networks a caller may name: the two known ones, an unknown one, none.
AnyNetworks == {"mainnet", "devnet", "badnet", ""}

\* _validate_network: network in ("mainnet", "devnet"), else ValueError
ValidNetwork(net) == net \in {"mainnet", "devnet"}

ApiKeys == {"", "key"}

\* The exception _rpc_url or _enhanced_url raises, "none" when it returns the
\* URL: _validate_network is evaluated first, then _require_api_key.
UrlError(net, key) ==
    IF ~ValidNetwork(net)
    THEN [type |-> "ValueError", text |-> "network must be 'mainnet' or 'devnet'"]
    ELSE IF key = ""
         THEN [type |-> "RuntimeError", text |-> "HELIUS_API_KEY env var is required."]
         ELSE [type |-> "none", text |-> ""]

\* payload = {"jsonrpc": "2.0", "id": "helius-mcp", "method": method, ...}
RpcPayload(method) == [jsonrpc |-> "2.0", id |-> "helius-mcp", method |-> method]

\* The "error" member of an envelope: absent, null, a string, or an object
\* with or without "code", "message" and other members ("other").  The empty
\* object has none of the three.
ErrorCodes == {-32600, 0}
ErrorMessages == {"Too many accounts", ""}

NoErrorMember(kind) == [kind |-> kind, code |-> None, message |-> None, other |-> FALSE]

ErrorMembers ==
    {NoErrorMember(k) : k \in {"absent", "null", "string", "empty_string"}}
    \cup [kind : {"object"},
          code : {None} \cup {Some(c) : c \in ErrorCodes},
          message : {None} \cup {Some(m) : m \in ErrorMessages},
          other : BOOLEAN]

\* The "result" member: absent, or present with a JSON value (written as text).
ResultMembers ==
    {[present |-> FALSE, val |-> "absent"]}
    \cup [present : {TRUE}, val : {"null", "0", "{ok: true}"}]

\* What http.post_json may return: a JSON object with these members, or some
\* other JSON value (a list).
Envelopes ==
    [isdict : {TRUE}, error : ErrorMembers, result : ResultMembers]
    \cup {[isdict |-> FALSE, error |-> NoErrorMember("absent"),
           result |-> [present |-> FALSE, val |-> "absent"]]}

NoData == [isdict |-> FALSE, error |-> NoErrorMember("none"),
           result |-> [present |-> FALSE, val |-> "none"]]

\* Python truthiness of data.get("error")
ErrorTruthy(e) ==
    \/ e.kind = "string"
    \/ e.kind = "object" /\ (e.code # None \/ e.message # None \/ e.other)

\* str() of what err.get(...) gives: the member, or None when it is missing.
CodeStr == (-32600 :> "-32600") @@ (0 :> "0")
StrOfCode(e) == IF e.code = None THEN "None" ELSE CodeStr[e.code[1]]
StrOfMessage(e) == IF e.message = None THEN "None" ELSE e.message[1]

\* f"RPC error {err.get('code')}: {err.get('message')}"
RpcErrorText(e) == "RPC error " \o StrOfCode(e) \o ": " \o StrOfMessage(e)

NoRpcValue == [from |-> "none", val |-> "none", envelope |-> NoData]
NoRpcError == [type |-> "none", text |-> ""]

RpcReturns(value) == [outcome |-> "returned", value |-> value, error |-> NoRpcError]
RpcRaises(type, text) ==
    [outcome |-> "raised", value |-> NoRpcValue, error |-> [type |-> type, text |-> text]]

\* Fault: the result member is looked at before the error member.
RpcUnwrap_ResultFirst(d) ==
    IF d.isdict /\ d.result.present
    THEN RpcReturns([from |-> "result", val |-> d.result.val, envelope |-> NoData])
    ELSE IF d.isdict /\ ErrorTruthy(d.error)
         THEN IF d.error.kind = "object"
              THEN RpcRaises("RuntimeError", RpcErrorText(d.error))
              ELSE RpcRaises("AttributeError", "")
         ELSE RpcReturns([from |-> "data", val |-> "none", envelope |-> d])

\* Lines 67-72: what rpc does with the decoded body.  A truthy error member
\* that is not an object has no .get: AttributeError.
RpcUnwrap(d) ==
    IF d.isdict /\ ErrorTruthy(d.error)
    THEN IF d.error.kind = "object"
         THEN RpcRaises("RuntimeError", RpcErrorText(d.error))
         ELSE RpcRaises("AttributeError", "")
    ELSE IF d.isdict /\ d.result.present
         THEN RpcReturns([from |-> "result", val |-> d.result.val, envelope |-> NoData])
         ELSE RpcReturns([from |-> "data", val |-> "none", envelope |-> d])

RpcQuiet ==
    /\ rpcPc = "idle"
    /\ rpcNetwork = "none"
    /\ rpcMethod = "none"
    /\ rpcPosts = <<>>
    /\ data = NoData
    /\ rpcOutcome = "none"
    /\ rpcValue = NoRpcValue
    /\ rpcError = NoRpcError

RpcIdle == RpcQuiet /\ apiKey = "key"

RpcStart ==
    /\ rpcPc = "call"
    /\ apiKey \in ApiKeys
    /\ rpcNetwork \in AnyNetworks
    /\ rpcMethod \in RpcMethods
    /\ rpcPosts = <<>>
    /\ data = NoData
    /\ rpcOutcome = "none"
    /\ rpcValue = NoRpcValue
    /\ rpcError = NoRpcError

\* Lines 65-66: the payload is built, then self._rpc_url(network) is
\* evaluated (it raises for an unknown network or a missing key), then the
\* payload is handed to http.post_json.
RpcPost ==
    /\ rpcPc = "call"
    /\ IF UrlError(rpcNetwork, apiKey).type = "none"
       THEN /\ rpcPosts' = Append(rpcPosts, RpcPayload(rpcMethod))
            /\ rpcPc' = "post"
            /\ UNCHANGED <<rpcOutcome, rpcError>>
       ELSE /\ rpcPc' = "done"
            /\ rpcOutcome' = "raised"
            /\ rpcError' = UrlError(rpcNetwork, apiKey)
            /\ UNCHANGED rpcPosts
    /\ UNCHANGED <<apiKey, rpcNetwork, rpcMethod, data, rpcValue>>

\* post_json raises (HTTPError of raise_for_status, a connection error, a body
\* that is not JSON): rpc catches nothing.
PostJsonFailures == {"HTTPError", "ConnectionError", "JSONDecodeError"}

RpcPostRaises ==
    /\ rpcPc = "post"
    /\ \E e \in PostJsonFailures :
          /\ rpcOutcome' = "raised"
          /\ rpcError' = [type |-> e, text |-> ""]
    /\ rpcPc' = "done"
    /\ UNCHANGED <<apiKey, rpcNetwork, rpcMethod, rpcPosts, data, rpcValue>>

\* Lines 66-72: post_json returns the decoded body.
RpcPostReturns ==
    /\ rpcPc = "post"
    /\ \E d \in Envelopes :
          /\ data' = d
          /\ rpcOutcome' = RpcUnwrap(d).outcome
          /\ rpcValue' = RpcUnwrap(d).value
          /\ rpcError' = RpcUnwrap(d).error
    /\ rpcPc' = "done"
    /\ UNCHANGED <<apiKey, rpcNetwork, rpcMethod, rpcPosts>>

RpcNext ==
    \/ RpcPost /\ UNCHANGED <<httpVars, resolverVars, uoVars, svcVars, logVars>>
    \/ RpcPostRaises /\ UNCHANGED <<httpVars, resolverVars, uoVars, svcVars, logVars>>
    \/ RpcPostReturns /\ UNCHANGED <<httpVars, resolverVars, uoVars, svcVars, logVars>>

\* ---------------------------------------------------------------------------
\* JupiterService.ultra_order (jupiter/services.py) and shape_query
\* (jupiter/transforms.py).  The local "taker" is None, a string, or the list
\* get_token_whale_addresses returned.
\* ---------------------------------------------------------------------------
PyNone == [kind |-> "None", val |-> <<>>]
PyStr(str) == [kind |-> "str", val |-> <<str>>]
PyList(list) == [kind |-> "list", val |-> list]

\* "not x" for None, a string or a list
PyFalsy(x) == x = PyNone \/ x = PyStr("") \/ x = PyList(<<>>)

UoAmounts == {"1", "abc"}

UoArgs ==
    [taker : {PyNone, PyStr(""), PyStr("Tk")},
     simulate : BOOLEAN,
     amount : UoAmounts,
     referralAccount : {PyNone, PyStr("Ref")}]

\* Lines 127-136: the params dict.
OrderParams(args, t) ==
    [inputMint |-> PyStr("In"),
     outputMint |-> PyStr("Out"),
     amount |-> PyStr(args.amount),
     taker |-> t,
     referralAccount |-> args.referralAccount,
     referralFee |-> PyNone,
     excludeRouters |-> PyNone,
     excludeDexes |-> PyNone]

\* Fault: nothing is dropped.
shape_query_KeepNone(params) == params

\* {k: v for k, v in params.items() if v is not None}
shape_query(params) ==
    [k \in {key \in DOMAIN params : params[key] # PyNone} |-> params[k]]

\* What get_token_whale_addresses may do: return a list, or raise.
WhaleLists == {<<>>, <<"A1">>, <<"A1", "A2">>}
WhaleFailures == {"RuntimeError", "ValueError", "HTTPError"}

\* What GET /order may do: raise, return a body model_validate rejects,
\* return an order with or without a transaction.
OrderOutcomes == {"raises", "invalid", "order", "order_with_transaction"}

UltraOrderIdle ==
    /\ uoPc = "idle"
    /\ uoArgs = [taker |-> PyNone, simulate |-> FALSE, amount |-> "none",
                 referralAccount |-> PyNone]
    /\ taker = PyNone
    /\ whaleCalls = 0
    /\ whaleOutcome = "none"
    /\ orderQueries = <<>>
    /\ uoOutcome = "none"

UltraOrderStart ==
    /\ uoPc = "start"
    /\ uoArgs \in UoArgs
    /\ taker = uoArgs.taker
    /\ whaleCalls = 0
    /\ whaleOutcome = "none"
    /\ orderQueries = <<>>
    /\ uoOutcome = "none"

\* Lines 127-137: the query is shaped and GET /order is issued with taker t.
SendOrder(t) ==
    /\ taker' = t
    /\ orderQueries' = Append(orderQueries, shape_query(OrderParams(uoArgs, t)))
    /\ uoPc' = "order"
    /\ UNCHANGED uoOutcome

\* Fault: the error leaves ultra_order.
UoOnWhalesError_Raise ==
    /\ uoPc' = "done"
    /\ uoOutcome' = "raised"
    /\ UNCHANGED <<taker, orderQueries>>

\* Lines 125-126: except Exception: pass
UoOnWhalesError == SendOrder(taker)

\* Lines 122-124: with no taker and simulate set, float(amount) is evaluated
\* inside the try and get_token_whale_addresses is called.
UoBegin ==
    /\ uoPc = "start"
    /\ IF PyFalsy(taker) /\ uoArgs.simulate
       THEN IF FloatParses(uoArgs.amount)
            THEN /\ whaleCalls' = whaleCalls + 1
                 /\ uoPc' = "whales"
                 /\ UNCHANGED <<taker, orderQueries, uoOutcome>>
            ELSE /\ UoOnWhalesError
                 /\ UNCHANGED whaleCalls
       ELSE /\ SendOrder(taker)
            /\ UNCHANGED whaleCalls
    /\ UNCHANGED <<uoArgs, whaleOutcome>>

\* Line 124: the call returns a list, bound to taker; lines 125-126: or raises.
UoWhalesReturn ==
    /\ uoPc = "whales"
    /\ \/ \E list \in WhaleLists :
             /\ whaleOutcome' = "returned"
             /\ SendOrder(PyList(list))
       \/ \E e \in WhaleFailures :
             /\ whaleOutcome' = e
             /\ UoOnWhalesError
    /\ UNCHANGED <<uoArgs, whaleCalls>>

\* Lines 137-149: the answer of GET /order.
UoOrderReturn ==
    /\ uoPc = "order"
    /\ \E r \in OrderOutcomes :
          IF r \in {"raises", "invalid"}
          THEN uoPc' = "done" /\ uoOutcome' = "raised"
          ELSE IF uoArgs.simulate /\ r = "order_with_transaction"
               THEN uoPc' = "simulate" /\ UNCHANGED uoOutcome
               ELSE uoPc' = "done" /\ uoOutcome' = "returned"
    /\ UNCHANGED <<uoArgs, taker, whaleCalls, whaleOutcome, orderQueries>>

\* Lines 147-149: simulate_transaction returns or raises.
UoSimulateReturn ==
    /\ uoPc = "simulate"
    /\ uoPc' = "done"
    /\ uoOutcome' \in {"returned", "raised"}
    /\ UNCHANGED <<uoArgs, taker, whaleCalls, whaleOutcome, orderQueries>>

OrderNext ==
    \/ UoBegin /\ UNCHANGED <<httpVars, rpcVars, resolverVars, svcVars, logVars>>
    \/ UoWhalesReturn /\ UNCHANGED <<httpVars, rpcVars, resolverVars, svcVars, logVars>>
    \/ UoOrderReturn /\ UNCHANGED <<httpVars, rpcVars, resolverVars, svcVars, logVars>>
    \/ UoSimulateReturn /\ UNCHANGED <<httpVars, rpcVars, resolverVars, svcVars, logVars>>

\* ---------------------------------------------------------------------------
\* transforms.summarize_raw_transaction (helius/transforms.py): the log lines
\* and the signature of the summary.
\* ---------------------------------------------------------------------------
MaxLogLines == 33       \* longest logMessages list of an input

TruncationMarker == "... (truncated) ..."

\* [f"log {i}" for i in range(n)]
LogLines(n) == [i \in 1..n |-> "log " \o ToString(i - 1)]

\* The inputs: meta present or not, logMessages None or a list, the
\* signatures of the transaction missing, empty or not.
RawTransactions ==
    [meta : BOOLEAN,
     logMessages : {None} \cup {Some(LogLines(n)) : n \in 0..MaxLogLines},
     signatures : {None, Some(<<>>), Some(<<"sig">>)}]

NoTransaction == [meta |-> FALSE, logMessages |-> None, signatures |-> None]

\* Lines 163-164: (meta.logMessages if meta else None) or []
LogsOf(t) == IF t.meta /\ t.logMessages # None THEN t.logMessages[1] ELSE <<>>

\* Fault: the late slice is as long as the early one.
TruncateLogs_Last15(logs) ==
    IF Len(logs) > 30
    THEN SubSeq(logs, 1, 15) \o <<TruncationMarker>>
             \o SubSeq(logs, Len(logs) - 14, Len(logs))
    ELSE logs

\* Lines 165-166: logs[:15] + ["... (truncated) ..."] + logs[-14:]
TruncateLogs(logs) ==
    IF Len(logs) > 30
    THEN SubSeq(logs, 1, 15) \o <<TruncationMarker>>
             \o SubSeq(logs, Len(logs) - 13, Len(logs))
    ELSE logs

\* Lines 167-169: the first signature, if there is one
FirstSignature(t) ==
    IF t.signatures # None /\ t.signatures[1] # <<>>
    THEN t.signatures[1][1]
    ELSE NoneVal

LogIdle ==
    /\ logPc = "idle"
    /\ tx = NoTransaction
    /\ log_messages = <<>>
    /\ signature = NoneVal

LogStart ==
    /\ logPc = "call"
    /\ tx \in RawTransactions
    /\ log_messages = <<>>
    /\ signature = NoneVal

\* Lines 161-178
SummarizeRawTransaction ==
    /\ logPc = "call"
    /\ log_messages' = TruncateLogs(LogsOf(tx))
    /\ signature' = FirstSignature(tx)
    /\ logPc' = "done"
    /\ UNCHANGED tx

LogNext ==
    SummarizeRawTransaction /\ UNCHANGED <<httpVars, rpcVars, resolverVars, uoVars, svcVars>>

\* ---------------------------------------------------------------------------
\* HeliusService methods that check their arguments (helius/services.py):
\* get_transactions posts to the enhanced REST API, the others call
\* HeliusClient.rpc, whose steps are the actions above.
\* ---------------------------------------------------------------------------
MaxSignatures == 101    \* longest signature or pubkey list

ListLengths == {0, 1, 100, MaxSignatures}

ListMethods == {"get_transactions", "get_signature_statuses", "get_multiple_accounts"}

\* The JSON-RPC method of each service method that calls rpc.
JsonRpcMethod ==
    [get_signature_statuses |-> "getSignatureStatuses",
     get_multiple_accounts |-> "getMultipleAccounts",
     get_priority_fee_estimate |-> "getPriorityFeeEstimate",
     get_balance |-> "getBalance"]

\* transaction: None, "" or a transaction; account_keys: None, [] or a list.
SvcCalls ==
    [method : ListMethods, n : ListLengths, network : AnyNetworks,
     transaction : {PyNone}, account_keys : {PyNone}]
    \cup [method : {"get_priority_fee_estimate"}, n : {0}, network : AnyNetworks,
          transaction : {PyNone, PyStr(""), PyStr("Tx")},
          account_keys : {PyNone, PyList(<<>>), PyList(<<"K1">>)}]
    \cup [method : {"get_balance"}, n : {0}, network : AnyNetworks,
          transaction : {PyNone}, account_keys : {PyNone}]

NoSvcCall == [method |-> "none", n |-> 0, network |-> "none",
              transaction |-> PyNone, account_keys |-> PyNone]

ValueErrorOf(text) == [type |-> "ValueError", text |-> text]

\* Fault: no argument is checked.
ArgumentError_Unchecked(c) == NoRpcError

\* The ValueError a method raises on entry, NoRpcError when it raises none:
\* get_transactions lines 30-33, get_signature_statuses lines 244-245,
\* get_multiple_accounts lines 269-270, get_priority_fee_estimate
\* lines 129-130.
ArgumentError(c) ==
    IF c.method = "get_transactions" /\ c.n = 0
        THEN ValueErrorOf("signatures must not be empty")
    ELSE IF c.method = "get_transactions" /\ c.n > 100
        THEN ValueErrorOf("max 100 signatures per call; chunk your requests")
    ELSE IF c.method = "get_signature_statuses" /\ c.n = 0
        THEN ValueErrorOf("signatures must not be empty")
    ELSE IF c.method = "get_multiple_accounts" /\ c.n = 0
        THEN ValueErrorOf("pubkeys must not be empty")
    ELSE IF /\ c.method = "get_priority_fee_estimate"
            /\ ~PyFalsy(c.transaction)
            /\ ~PyFalsy(c.account_keys)
        THEN ValueErrorOf("Provide either transaction or account_keys, not both.")
    ELSE NoRpcError

SvcIdle ==
    /\ svcPc = "idle"
    /\ svcCall = NoSvcCall
    /\ restPosts = 0
    /\ svcOutcome = "none"
    /\ svcError = NoRpcError

SvcStart ==
    /\ svcPc = "call"
    /\ svcCall \in SvcCalls
    /\ restPosts = 0
    /\ svcOutcome = "none"
    /\ svcError = NoRpcError

SvcRaise(e) ==
    /\ svcPc' = "done"
    /\ svcOutcome' = "raised"
    /\ svcError' = e

\* The method is entered: its checks, then for get_transactions the URL and
\* rest_post (lines 34-36), for the others the call of client.rpc.
SvcEnter ==
    /\ svcPc = "call"
    /\ IF ArgumentError(svcCall) # NoRpcError
       THEN /\ SvcRaise(ArgumentError(svcCall))
            /\ UNCHANGED <<restPosts, rpcVars>>
       ELSE IF svcCall.method = "get_transactions"
            THEN /\ IF UrlError(svcCall.network, apiKey).type = "none"
                    THEN /\ restPosts' = restPosts + 1
                         /\ svcPc' = "rest"
                         /\ UNCHANGED <<svcOutcome, svcError>>
                    ELSE /\ SvcRaise(UrlError(svcCall.network, apiKey))
                         /\ UNCHANGED restPosts
                 /\ UNCHANGED rpcVars
            ELSE /\ svcPc' = "rpc"
                 /\ rpcPc' = "call"
                 /\ rpcNetwork' = svcCall.network
                 /\ rpcMethod' = JsonRpcMethod[svcCall.method]
                 /\ UNCHANGED <<restPosts, svcOutcome, svcError>>
                 /\ UNCHANGED <<apiKey, rpcPosts, data, rpcOutcome, rpcValue, rpcError>>
    /\ UNCHANGED svcCall

\* rest_post returns or raises; turning the answer into summaries may raise.
SvcRestReturn ==
    /\ svcPc = "rest"
    /\ \/ svcOutcome' = "returned" /\ UNCHANGED svcError
       \/ \E e \in PostJsonFailures \cup {"ValidationError"} :
             /\ svcOutcome' = "raised"
             /\ svcError' = [type |-> e, text |-> ""]
    /\ svcPc' = "done"
    /\ UNCHANGED <<svcCall, restPosts, rpcVars>>

\* client.rpc has returned or raised: an exception leaves the method as it
\* is; turning a result into summaries may raise.
SvcRpcDone ==
    /\ svcPc = "rpc"
    /\ rpcPc = "done"
    /\ IF rpcOutcome = "raised"
       THEN svcOutcome' = "raised" /\ svcError' = rpcError
       ELSE \/ svcOutcome' = "returned" /\ UNCHANGED svcError
            \/ /\ svcOutcome' = "raised"
               /\ svcError' = [type |-> "ValidationError", text |-> ""]
    /\ svcPc' = "done"
    /\ UNCHANGED <<svcCall, restPosts, rpcVars>>

SvcNext ==
    \/ SvcEnter /\ UNCHANGED <<httpVars, resolverVars, uoVars, logVars>>
    \/ SvcRestReturn /\ UNCHANGED <<httpVars, resolverVars, uoVars, logVars>>
    \/ SvcRpcDone /\ UNCHANGED <<httpVars, resolverVars, uoVars, logVars>>
    \/ RpcPost /\ UNCHANGED <<httpVars, resolverVars, uoVars, svcVars, logVars>>
    \/ RpcPostRaises /\ UNCHANGED <<httpVars, resolverVars, uoVars, svcVars, logVars>>
    \/ RpcPostReturns /\ UNCHANGED <<httpVars, resolverVars, uoVars, svcVars, logVars>>

\* ---- the specification of one invocation ----
ResolverIdle ==
    /\ mint = "none"
    /\ network = "none"
    /\ min_amount_ui = 0
    /\ min_sol_balance = 0
    /\ max_results = 0
    /\ pc = "idle"
    /\ tier = 0
    /\ outcome = "none"
    /\ result = <<>>
    /\ error = "none"
    /\ largest = <<>>
    /\ acctIdx = 0
    /\ whale_addresses = <<>>
    /\ iterations = 0
    /\ cursor = NoneVal
    /\ das_result = NoDasResult
    /\ remaining = 0
    /\ owner = NoneVal
    /\ amount_ui = None
    /\ known_candidates = <<>>
    /\ filtered = <<>>
    /\ knownIdx = 0
    /\ topHoldersCalls = 0
    /\ topHoldersOutcome = "none"
    /\ scanEntries = 0
    /\ pageFetches = 0
    /\ inFlight = 0
    /\ verified = {}
    /\ t1Checked = {}
    /\ t1Passed = {}
    /\ largestSeen = None
    /\ pageError = "none"
    /\ unexaminedWhale = NoneVal
    /\ probeRaised = FALSE

ResolverStart ==
    /\ mint \in Mints
    /\ network \in Networks
    /\ min_amount_ui \in MinAmounts
    /\ min_sol_balance \in MinSolBalances
    /\ max_results \in 0..MaxResultsBound
    /\ pc = "start"
    /\ tier = 1
    /\ outcome = "none"
    /\ result = <<>>
    /\ error = "none"
    /\ largest = <<>>
    /\ acctIdx = 0
    /\ whale_addresses = <<>>
    /\ iterations = 0
    /\ cursor = NoneVal
    /\ das_result = NoDasResult
    /\ remaining = 0
    /\ owner = NoneVal
    /\ amount_ui = None
    /\ known_candidates = <<>>
    /\ filtered = <<>>
    /\ knownIdx = 0
    /\ topHoldersCalls = 0
    /\ topHoldersOutcome = "none"
    /\ scanEntries = 0
    /\ pageFetches = 0
    /\ inFlight = 0
    /\ verified = {}
    /\ t1Checked = {}
    /\ t1Passed = {}
    /\ largestSeen = None
    /\ pageError = "none"
    /\ unexaminedWhale = NoneVal
    /\ probeRaised = FALSE

Init == ResolverStart /\ HttpIdle /\ RpcIdle /\ UltraOrderIdle /\ SvcIdle /\ LogIdle

Next ==
    \/ TopHolders /\ UNCHANGED <<httpVars, rpcVars, uoVars, svcVars, logVars>>
    \/ T1BalanceReturn /\ UNCHANGED <<httpVars, rpcVars, uoVars, svcVars, logVars>>
    \/ FetchPage /\ UNCHANGED <<httpVars, rpcVars, uoVars, svcVars, logVars>>
    \/ NextItem /\ UNCHANGED <<httpVars, rpcVars, uoVars, svcVars, logVars>>
    \/ T2BalanceReturn /\ UNCHANGED <<httpVars, rpcVars, uoVars, svcVars, logVars>>
    \/ T3BalanceReturn /\ UNCHANGED <<httpVars, rpcVars, uoVars, svcVars, logVars>>

Spec == Init /\ [][Next]_vars

\* Every call the resolver waits for (get_token_largest_accounts, a page
\* fetch, get_balance) eventually returns or raises, and the code between two
\* calls runs to the next call: a step that can be taken is taken.
LiveSpec == Spec /\ WF_vars(Next)

HttpInit == HttpStart /\ ResolverIdle /\ RpcIdle /\ UltraOrderIdle /\ SvcIdle /\ LogIdle

HttpSpec == HttpInit /\ [][HttpNext]_vars

RpcInit == RpcStart /\ HttpIdle /\ ResolverIdle /\ UltraOrderIdle /\ SvcIdle /\ LogIdle

RpcSpec == RpcInit /\ [][RpcNext]_vars

OrderInit == UltraOrderStart /\ HttpIdle /\ RpcIdle /\ ResolverIdle /\ SvcIdle /\ LogIdle

OrderSpec == OrderInit /\ [][OrderNext]_vars

LogInit == LogStart /\ HttpIdle /\ RpcIdle /\ ResolverIdle /\ UltraOrderIdle /\ SvcIdle

LogSpec == LogInit /\ [][LogNext]_vars

SvcInit ==
    /\ SvcStart
    /\ RpcQuiet
    /\ apiKey \in ApiKeys
    /\ HttpIdle /\ ResolverIdle /\ UltraOrderIdle /\ LogIdle

SvcSpec == SvcInit /\ [][SvcNext]_vars

(***************************************************************************)
(* Properties                                                              *)
(***************************************************************************)

Returned == pc = "done" /\ outcome = "returned"

MinOf(S) == CHOOSE x \in S : \A y \in S : x <= y

\* Positions of "largest" appended before position j.
PassedBefore(j) == {i \in t1Passed : i < j}

\* ------------------------------------------------------------------ C1
\* C1 (as claimed): every address the resolver returns is one for which a
\* get_balance call of this invocation returned at least min_sol_balance.
C1_OnlyVerifiedReturned ==
    Returned => \A a \in Range(result) : a \in verified

C3_TierFallthrough ==
    /\ [](/\ topHoldersCalls <= 1
          /\ scanEntries <= 1
          /\ (topHoldersOutcome = "RuntimeError_TooManyAccounts" => scanEntries = 1))
    /\ [][tier >= 2 => (tier' >= 2 /\ topHoldersCalls' = topHoldersCalls)]_vars

\* The top holder query failed with "Too many accounts" and a page was fetched.
C3_Witness ==
    /\ topHoldersOutcome = "RuntimeError_TooManyAccounts"
    /\ topHoldersCalls = 1
    /\ pageFetches >= 1

\* ------------------------------------------------------------------ C4
\* C4: within one invocation getTokenAccounts is fetched at most
\* max_iterations times.
C4_IterationBound == pageFetches <= max_iterations

\* The last page allowed is being read, it names a next cursor (as every page
\* before it did), and no address has been collected.
C4_Witness ==
    /\ pageFetches = max_iterations
    /\ pc = "t2_items"
    /\ Truthy(das_result.cursor)
    /\ whale_addresses = <<>>

\* ------------------------------------------------------------------ C5
\* No entry examined by the scan reached min_amount_ui, and there is a largest
\* one.
OnlySmallHoldersSeen ==
    /\ scanEntries = 1
    /\ largestSeen # None
    /\ largestSeen[1].amount_ui < min_amount_ui * UiScale

\* Known whales the fallback loop has checked and rejected.
FallbackRejected ==
    {known_candidates[i] : i \in 1..(knownIdx - 1)} \ Range(filtered)

C6_ConcurrencyBound == inFlight <= 1

\* First page, two entries, both qualifying: the first was collected and the
\* check of the second is in flight.
C6_Witness ==
    /\ pc = "t2_wait"
    /\ inFlight = 1
    /\ pageFetches = 1
    /\ das_result.n = 2
    /\ remaining = 0
    /\ Len(whale_addresses) = 1

Requests(log) == SelectSeq(log, LAMBDA e : e.ev = "request")

Sleeps(log) == SelectSeq(log, LAMBDA e : e.ev = "sleep")

\* The call is over and its last request got a response that is not retryable.
EndedOnFinalResponse ==
    /\ hPc = "done"
    /\ hLog # <<>>
    /\ hLog[Len(hLog)].ev = "request"
    /\ hLog[Len(hLog)].val # NoResponse
    /\ ~IsRetryable(hLog[Len(hLog)].val)

\* C8: if attempts 1..k-1 got retryable responses and attempt k a response
\* that is not retryable, the call hands back the k-th response after exactly
\* k requests and k-1 sleeps, requests and sleeps alternating and the sleeps
\* taking the backoff slots in order.
C8_RetryThenSuccess ==
    EndedOnFinalResponse =>
        LET k == Len(Requests(hLog))
        IN  /\ k <= Len(backoffs)
            /\ Len(hLog) = 2 * k - 1
            /\ \A i \in 1..k : hLog[2 * i - 1].ev = "request"
            /\ \A i \in 1..(k - 1) :
                  /\ IsRetryable(hLog[2 * i - 1].val)
                  /\ hLog[2 * i] = SleepEvent(backoffs[i])
            /\ hValue = hLog[Len(hLog)].val
            /\ hCaller = "request_with_retry" => hOutcome = "returned"
            /\ hOutcome = "returned" <=> ~(hCaller \in {"get_json", "post_json"}
                                            /\ RaisesForStatus(hValue))

\* Responses 500, 429, 200: three requests, sleeps of 0.2 s and 0.6 s, the 200
\* returned.
C8_Witness ==
    /\ hPc = "done"
    /\ hLog = <<ReqEvent(500), SleepEvent(200), ReqEvent(429), SleepEvent(600),
                ReqEvent(200)>>
    /\ hOutcome = "returned"
    /\ hValue = 200

\* ------------------------------------------------------------------ C9
\* Every request of the call got a retryable response.
AllRetryable ==
    /\ Requests(hLog) # <<>>
    /\ \A i \in 1..Len(hLog) :
          hLog[i].ev = "request" => (hLog[i].val # NoResponse /\ IsRetryable(hLog[i].val))

\* C9: a call never issues more requests than the policy has slots; when
\* every response is retryable it ends after exactly that many requests, with
\* no further retry, by raising for the last response.
C9_RetryExhaustion ==
    /\ Len(Requests(hLog)) <= Len(backoffs)
    /\ (hPc = "done" /\ AllRetryable) =>
          /\ Len(Requests(hLog)) = Len(backoffs)
          /\ hOutcome = "raised_http"
          /\ hValue = hLog[Len(hLog)].val
          /\ hLog[Len(hLog)].ev = "request"

\* get_json against 500, 500, 500.
C9_Witness ==
    /\ hPc = "done"
    /\ hCaller = "get_json"
    /\ Requests(hLog) = <<ReqEvent(500), ReqEvent(500), ReqEvent(500)>>
    /\ hOutcome = "raised_http"

\* ------------------------------------------------------------------ C10
\* C10 (as claimed): a failing (429 or 5xx) response is surfaced only after
\* every backoff slot of the policy has been slept.
C10_AllSlotsSlept ==
    (hPc = "done" /\ hOutcome = "raised_http" /\ IsRetryable(hValue)) =>
        Sleeps(hLog) = [i \in 1..Len(backoffs) |-> SleepEvent(backoffs[i])]

\* ------------------------------------------------------------------ C11
\* C11: a request on which session.request raised is the last event of the
\* call: no sleep and no request follows it, whichever attempt it was, and the
\* call ends at once by propagating that exception.
C11_ConnectionFailureNotRetried ==
    \A i \in 1..Len(hLog) :
        hLog[i] = ReqFailedEvent =>
            /\ i = Len(hLog)
            /\ hPc = "done"
            /\ hOutcome = "raised_conn"
            /\ hValue = NoResponse

\* A 429, the first backoff, then the second request fails to connect.
C11_Witness ==
    /\ hPc = "done"
    /\ hLog = <<ReqEvent(429), SleepEvent(200), ReqFailedEvent>>
    /\ hOutcome = "raised_conn"

\* ------------------------------------------------------------------ C12
\* A status that is neither 429 nor in [500, 600).
NonTransient(status) == status # 429 /\ (status < 500 \/ status >= 600)

\* C12: a response whose status is neither 429 nor in [500, 600) is the last
\* event of the call (no sleep, no request after it) and it is that response
\* request_with_retry hands back; request_with_retry itself returns it, also
\* when it is a client error.
C12_NonTransientNotRetried ==
    \A i \in 1..Len(hLog) :
        (hLog[i].ev = "request" /\ hLog[i].val # NoResponse /\ NonTransient(hLog[i].val)) =>
            /\ i = Len(hLog)
            /\ hPc = "done"
            /\ hValue = hLog[i].val
            /\ hCaller = "request_with_retry" => hOutcome = "returned"

\* request_with_retry gets a 404 on the first attempt and returns it.
C12_Witness ==
    /\ hPc = "done"
    /\ hCaller = "request_with_retry"
    /\ hLog = <<ReqEvent(404)>>
    /\ hOutcome = "returned"
    /\ hValue = 404

\* ------------------------------------------------------------------ C13
\* The envelope carries an error object: an "error" member that is an object
\* with at least one member.
HasErrorObject(d) ==
    d.isdict /\ d.error.kind = "object" /\ d.error # NoErrorMember("object")

\* The envelope has no error: the member is missing, null or empty.
HasNoError(d) ==
    d.isdict /\ ~HasErrorObject(d) /\ d.error.kind \in {"absent", "null", "object"}

\* C13: rpc hands exactly one payload to post_json.  When the body it gets
\* back carries an error object, rpc raises a RuntimeError whose text holds the
\* remote code and message, and returns nothing, whether or not a result
\* member is present; when the body carries no error and has a result member,
\* rpc returns the value of that member.
C13_EnvelopeClassification ==
    /\ Len(rpcPosts) <= 1
    /\ (rpcPc = "done" /\ data # NoData) =>
          /\ rpcPosts = <<RpcPayload(rpcMethod)>>
          /\ HasErrorObject(data) =>
                /\ rpcOutcome = "raised"
                /\ rpcValue = NoRpcValue
                /\ rpcError.type = "RuntimeError"
                /\ \A c \in ErrorCodes, m \in ErrorMessages :
                      (data.error.code = Some(c) /\ data.error.message = Some(m)) =>
                          rpcError.text = "RPC error " \o CodeStr[c] \o ": " \o m
          /\ (HasNoError(data) /\ data.result.present) =>
                /\ rpcOutcome = "returned"
                /\ rpcError = NoRpcError
                /\ rpcValue.from = "result"
                /\ rpcValue.val = data.result.val

\* The body has both an error object and a result member: rpc raised.
C13_Witness ==
    /\ rpcPc = "done"
    /\ data.isdict
    /\ data.error.code = Some(-32600)
    /\ data.error.message = Some("Too many accounts")
    /\ data.result.present
    /\ rpcOutcome = "raised"
    /\ rpcError.text = "RPC error -32600: Too many accounts"

\* ------------------------------------------------------------------ C14
\* C14: when get_token_largest_accounts fails with an error that is not the
\* "Too many accounts" signal, the resolver ends by raising that error: the
\* paginated scan is not entered, no page is fetched and the known-whale
\* fallback is not consulted.
C14_OtherTier1ErrorIsFatal ==
    (topHoldersOutcome \in {"RuntimeError", "ValueError", "HTTPError"}) =>
        /\ pc = "done"
        /\ outcome = "raised"
        /\ error = topHoldersOutcome
        /\ result = <<>>
        /\ tier = 1
        /\ scanEntries = 0
        /\ pageFetches = 0
        /\ known_candidates = <<>>
        /\ inFlight = 0

\* The top holder query failed with an RPC error other than the signal.
C14_Witness ==
    /\ topHoldersCalls = 1
    /\ topHoldersOutcome = "RuntimeError"
    /\ outcome = "raised"
    /\ error = "RuntimeError"

\* ------------------------------------------------------------------ C15
\* C15 (as claimed): an error raised by a getTokenAccounts call (not the "Too
\* many accounts" signal) ends the resolver by raising that same error.
C15_PageErrorSurfaces ==
    (pageError # "none") =>
        /\ pc = "done"
        /\ outcome = "raised"
        /\ error = pageError

\* ------------------------------------------------------------------ C16
\* C16 (as claimed): when a fetched page that validates against the response
\* schema holds an entry whose amount reaches min_amount_ui and whose owner
\* has a sufficient native balance, the scan produces the result and the
\* result contains that owner.
C16_QualifyingHolderFound ==
    (Returned /\ unexaminedWhale # NoneVal) =>
        /\ tier = 2
        /\ unexaminedWhale \in Range(result)

\* ------------------------------------------------------------------ C17
\* The ui_amount_string of a top holder is a number of at least min_amount_ui.
HolderAmountReaches(account) ==
    /\ account.ui_amount_string \in {"0", "1", "3"}
    /\ FloatTable[account.ui_amount_string] >= min_amount_ui

\* C17: get_balance is called for a top holder only when the holder's amount
\* is at least min_amount_ui, and for the owner of a page entry only when the
\* entry's amount_ui is at least min_amount_ui.
C17_ProbeOnlyAboveThreshold ==
    /\ \A j \in t1Checked : HolderAmountReaches(largest[j])
    /\ pc = "t1_wait" => acctIdx \in t1Checked
    /\ pc = "t2_wait" =>
          /\ amount_ui # None
          /\ amount_ui[1] >= min_amount_ui * UiScale

\* Scenario A: the first holder is below the threshold and is never checked;
\* the second is checked and returned.
C17_Witness ==
    /\ Returned
    /\ tier = 1
    /\ largest = << [address |-> "A1", ui_amount_string |-> "1"],
                    [address |-> "A2", ui_amount_string |-> "3"] >>
    /\ t1Checked = {2}
    /\ result = <<"A2">>

\* ------------------------------------------------------------------ C18
\* C18: in the paginated tier, when the get_balance call for a page entry
\* raises, the entry is not collected and the resolver does not raise: the for
\* loop goes on over the same page, the next step reads the next entry of the
\* page if there is one, and otherwise the scan moves to the next page.
C18_FailingProbeDowngraded ==
    /\ [][(pc = "t2_wait" /\ probeRaised') =>
             /\ pc' = "t2_items"
             /\ outcome' = "none"
             /\ whale_addresses' = whale_addresses
             /\ remaining' = remaining
             /\ das_result' = das_result
             /\ iterations' = iterations]_vars
    /\ [][(pc = "t2_items" /\ probeRaised /\ Len(whale_addresses) < max_results) =>
             /\ outcome' # "raised"
             /\ remaining > 0 => remaining' = remaining - 1
             /\ (remaining = 0 /\ das_result.cursor \in Cursors /\ iterations < max_iterations)
                   => pc' = "t2_fetch"]_vars

\* The check of the first of two entries raised; the second is still to be
\* read and nothing has been raised.
C18_Witness ==
    /\ pc = "t2_items"
    /\ probeRaised
    /\ das_result.n = 2
    /\ remaining = 1
    /\ outcome = "none"

\* ------------------------------------------------------------------ C19
\* C19 (as claimed): in no tier does an exception of a get_balance call make
\* the resolver raise.
C19_ProbeErrorNeverFatal ==
    probeRaised => outcome # "raised"

\* ------------------------------------------------------------------ C20
\* C20 (as claimed): for every max_results >= 0 the list returned holds at
\* most max_results addresses.
C20_ResultSizeBound ==
    Returned => Len(result) <= max_results

\* ------------------------------------------------------------------ C21
\* C21: provided every call the resolver makes eventually returns or raises,
\* every invocation eventually completes, with a result or with an error.
C21_Termination == <>(pc = "done" /\ outcome \in {"returned", "raised"})

\* The invocation completed after the scan used its whole budget of pages
\* (each page but the last named a next cursor).
C21_Witness ==
    /\ pc = "done"
    /\ outcome = "returned"
    /\ pageFetches = max_iterations

\* ------------------------------------------------------------------ C23
\* C23: the first page fetch of an invocation is prepared with no cursor;
\* every later fetch is prepared, at the end of the page before it, with
\* exactly the cursor that page returned; a page that returned no cursor is
\* followed by no fetch; and pages are fetched one at a time, each with the
\* cursor so prepared.
C23_CursorProtocol ==
    /\ [][pc' = "t2_fetch" =>
             IF pc \in {"start", "t1_wait"}
             THEN /\ cursor' = NoneVal
                  /\ pageFetches' = 0
             ELSE /\ pc = "t2_items"
                  /\ das_result.cursor \in Cursors
                  /\ cursor' = das_result.cursor
                  /\ pageFetches' = pageFetches
                  /\ pageFetches >= 1]_vars
    /\ [][pageFetches' # pageFetches =>
             /\ pc = "t2_fetch"
             /\ pageFetches' = pageFetches + 1
             /\ pc' = "t2_items" => cursor' = cursor]_vars

\* Two pages were fetched and the third fetch is about to carry the cursor
\* the second page returned.
C23_Witness ==
    /\ pc = "t2_fetch"
    /\ pageFetches = 2
    /\ cursor = "c2"

\* C24: when ultra_order is called without a taker and with simulate set, an
\* error of get_token_whale_addresses does not leave ultra_order: the taker
\* stays None, GET /order is issued exactly once, and its query has no
\* "taker" key.
C24_WhaleFailureDiscarded ==
    (uoArgs.taker = PyNone /\ uoArgs.simulate /\ whaleOutcome \in WhaleFailures)
        => /\ whaleCalls = 1
           /\ taker = PyNone
           /\ Len(orderQueries) = 1
           /\ "taker" \notin DOMAIN orderQueries[1]
           /\ DOMAIN orderQueries[1] \subseteq
                  {"inputMint", "outputMint", "amount", "referralAccount"}
           /\ uoPc \in {"order", "simulate", "done"}

C24_Witness ==
    /\ uoPc = "done"
    /\ uoOutcome = "returned"
    /\ uoArgs.taker = PyNone
    /\ uoArgs.simulate
    /\ whaleOutcome = "RuntimeError"
    /\ Len(orderQueries) = 1
    /\ "taker" \notin DOMAIN orderQueries[1]

EmptyOrTooLong(c) ==
    \/ c.method = "get_transactions" /\ (c.n = 0 \/ c.n > 100)
    \/ c.method \in {"get_signature_statuses", "get_multiple_accounts"} /\ c.n = 0

BothGiven(c) ==
    /\ c.method = "get_priority_fee_estimate"
    /\ c.transaction = PyStr("Tx")
    /\ c.account_keys = PyList(<<"K1">>)

UnknownNetworkRpc(c) ==
    /\ c.method \in DOMAIN JsonRpcMethod
    /\ c.network \notin {"mainnet", "devnet"}

\* C25: a call of get_transactions with no or more than 100 signatures, of
\* get_signature_statuses or get_multiple_accounts with an empty list, of
\* get_priority_fee_estimate with both transaction and account_keys, or of
\* a method that calls rpc with an unknown network, issues no HTTP request
\* and ends by raising ValueError.
C25_InvalidArgumentsRejected ==
    (EmptyOrTooLong(svcCall) \/ BothGiven(svcCall) \/ UnknownNetworkRpc(svcCall))
        => /\ restPosts = 0
           /\ rpcPosts = <<>>
           /\ rpcPc # "post"
           /\ svcPc = "done" => (svcOutcome = "raised" /\ svcError.type = "ValueError")

C25_Witness ==
    /\ svcPc = "done"
    /\ svcCall.method = "get_transactions"
    /\ svcCall.n = 101
    /\ svcCall.network = "mainnet"
    /\ apiKey = "key"
    /\ svcOutcome = "raised"
    /\ svcError = ValueErrorOf("max 100 signatures per call; chunk your requests")
    /\ restPosts = 0

\* A step that ends Tier 1 after get_token_largest_accounts answered, other
\* than by raising or by returning addresses.
Tier1EndsEmpty ==
    /\ tier = 1
    /\ pc \in {"start", "t1_wait"}
    /\ topHoldersOutcome' = "ok"
    /\ pc' # "t1_wait"
    /\ outcome' # "raised"
    /\ ~(pc' = "done" /\ tier' = 1 /\ result' # <<>>)

\* C27: when get_token_largest_accounts answers and Tier 1 collects no
\* address (an empty answer, or no holder passing both tests), the resolver
\* does not return from Tier 1: it enters the paginated scan, whose first page
\* is fetched next unless max_results is 0.
C27_EmptyTier1EntersScan ==
    /\ []((pc = "done" /\ outcome = "returned" /\ tier = 1) => result # <<>>)
    /\ [][Tier1EndsEmpty =>
             /\ tier' >= 2
             /\ scanEntries' = scanEntries + 1
             /\ pageFetches' = 0
             /\ max_results >= 1 => pc' = "t2_fetch"]_vars

\* The top holder query answered, no address was collected from it, and the
\* first page of the scan is about to be fetched.
C27_Witness ==
    /\ pc = "t2_fetch"
    /\ topHoldersOutcome = "ok"
    /\ scanEntries = 1
    /\ pageFetches = 0
    /\ inFlight = 0
    /\ verified = {}
    /\ ~probeRaised
    /\ max_results >= 1

\* The mints of the hard-coded table
TableMints == {USDC_MINT, SOL_MINT, USDT_MINT}

\* C28: the known-whale table is read only when the paginated scan has ended
\* with nothing collected; off mainnet, or for a mint the table does not
\* list, it gives no candidate, no get_balance call follows and the resolver
\* returns the empty list.
C28_KnownTableLastResort ==
    /\ [](tier = 3 => (scanEntries = 1 /\ whale_addresses = <<>>))
    /\ [][(tier # 3 /\ tier' = 3) =>
             /\ whale_addresses' = <<>>
             /\ scanEntries' = 1
             /\ known_candidates' = GetKnownWhaleAddresses(mint, network)]_vars
    /\ []((tier = 3 /\ (network # "mainnet" \/ mint \notin TableMints)) =>
             /\ known_candidates = <<>>
             /\ pc = "done"
             /\ outcome = "returned"
             /\ result = <<>>
             /\ inFlight = 0)

\* On devnet, for a listed mint: pages were fetched, nothing was collected,
\* and the empty list was returned from the last tier.
C28_Witness ==
    /\ pc = "done"
    /\ outcome = "returned"
    /\ tier = 3
    /\ network = "devnet"
    /\ mint = USDC_MINT
    /\ pageFetches >= 1
    /\ result = <<>>

\* C29: for max_results >= 1, in Tier 1 and in the paginated tier, no more
\* than max_results addresses are collected, each one verified; once
\* max_results are collected no get_balance call is pending, and the only
\* step the resolver still takes returns the collected list, starting no
\* get_balance call and fetching no page.
C29_CollectionStopsAtMaxResults ==
    /\ []((max_results >= 1 /\ tier \in {1, 2}) =>
             /\ Len(whale_addresses) <= max_results
             /\ Range(whale_addresses) \subseteq verified
             /\ Len(whale_addresses) = max_results =>
                    /\ inFlight = 0
                    /\ pc \in {"done", "t2_items"}
                    /\ pc = "done" => (outcome = "returned" /\ result = whale_addresses))
    /\ [][(max_results >= 1 /\ tier \in {1, 2} /\ Len(whale_addresses) = max_results) =>
              /\ pc' = "done"
              /\ outcome' = "returned"
              /\ result' = whale_addresses
              /\ inFlight' = 0
              /\ pageFetches' = pageFetches
              /\ topHoldersCalls' = topHoldersCalls
              /\ verified' = verified]_vars

\* Tier 1 returned max_results = 1 address: the first of two holders with a
\* sufficient amount passed and the second was never probed.
C29_Witness ==
    /\ pc = "done"
    /\ outcome = "returned"
    /\ tier = 1
    /\ max_results = 1
    /\ Len(result) = 1
    /\ Len(largest) = 2
    /\ T1AmountOk(largest[2])
    /\ t1Checked = {1}

\* C30: a page whose fetch or parsing fails ends the scan without an
\* exception leaving the resolver and with whale_addresses as the earlier
\* pages left it: a non-empty whale_addresses is returned as the result, and
\* the known-whale table is read only when it is empty.
C30_PageFailureKeepsProgress ==
    /\ [][(pc = "t2_fetch" /\ pageError' # "none") =>
              /\ outcome' # "raised"
              /\ whale_addresses' = whale_addresses
              /\ IF whale_addresses # <<>>
                 THEN /\ pc' = "done"
                      /\ outcome' = "returned"
                      /\ tier' = 2
                      /\ result' = whale_addresses
                      /\ known_candidates' = <<>>
                 ELSE /\ tier' = 3
                      /\ known_candidates' = GetKnownWhaleAddresses(mint, network)]_vars
    /\ [](pageError # "none" =>
              /\ outcome # "raised"
              /\ tier = 3 <=> whale_addresses = <<>>
              /\ pageFetches >= 1)

\* The second page failed after the first one gave an address: that address
\* is the result.
C30_Witness ==
    /\ pc = "done"
    /\ outcome = "returned"
    /\ tier = 2
    /\ pageError = "HTTPError"
    /\ pageFetches = 2
    /\ max_results = 2
    /\ result = <<"A1">>

====
